---------------------------- MODULE Spec2Model ----------------------------
(***************************************************************************)
(* Model of wonderffuf.py: the line classifier (parse_ffuf_output), the    *)
(* result recorder (process_ffuf_output), the report generator             *)
(* (generate_summary_report) and the streaming loop of start_fuzzing.      *)
(*                                                                         *)
(* Text is a sequence of one-character strings, so that the regular        *)
(* expressions, str.split, str.strip and str.capitalize are computed on    *)
(* characters the way Python computes them.                                *)
(***************************************************************************)
EXTENDS Integers, Sequences, FiniteSets, TLC

(***************************************************************************)
(* Bounds of the model.                                                    *)
(***************************************************************************)
\* Fragments concatenated into one input line of the pure-function runs.
MaxFrags == 3
\* Lines the child process writes to its standard output in one run.
MaxLines == 2
\* Largest value of the wall clock (seconds since start_time).
MaxClock == 2
\* Largest timeout the operator configures.
MaxTimeout == 1

(***************************************************************************)
(* Characters.                                                             *)
(***************************************************************************)
UpperLetters ==
  <<"A","B","C","D","E","F","G","H","I","J","K","L","M",
    "N","O","P","Q","R","S","T","U","V","W","X","Y","Z">>

LowerLetters ==
  <<"a","b","c","d","e","f","g","h","i","j","k","l","m",
    "n","o","p","q","r","s","t","u","v","w","x","y","z">>

Range(f) == {f[k] : k \in DOMAIN f}

\* \d and str.isdigit on the ASCII characters
Digits == {"0","1","2","3","4","5","6","7","8","9"}

\* \s, and what str.split / str.strip treat as white space
Whitespace == {" ", "\t", "\n", "\r"}

\* \w : letters, digits and the underscore
WordChars == Range(UpperLetters) \cup Range(LowerLetters) \cup Digits \cup {"_"}

\* str.lower on one character
ToLower(c) ==
  IF c \in Range(UpperLetters)
    THEN LowerLetters[CHOOSE k \in DOMAIN UpperLetters : UpperLetters[k] = c]
    ELSE c

\* str.upper on one character
ToUpper(c) ==
  IF c \in Range(LowerLetters)
    THEN UpperLetters[CHOOSE k \in DOMAIN LowerLetters : LowerLetters[k] = c]
    ELSE c

\* str.capitalize: first character upper-cased, the rest lower-cased
capitalize(s) ==
  [k \in DOMAIN s |-> IF k = 1 THEN ToUpper(s[k]) ELSE ToLower(s[k])]

(***************************************************************************)
(* String primitives used by the source.                                   *)
(***************************************************************************)
\* the literal lit occurs in s at position i (case-sensitive)
StartsAt(s, i, lit) ==
  /\ i >= 1
  /\ i + Len(lit) - 1 <= Len(s)
  /\ \A k \in 1..Len(lit) : s[i + k - 1] = lit[k]

\* the same under re.IGNORECASE
StartsAtIgnoreCase(s, i, lit) ==
  /\ i >= 1
  /\ i + Len(lit) - 1 <= Len(s)
  /\ \A k \in 1..Len(lit) : ToLower(s[i + k - 1]) = ToLower(lit[k])

\* "lit in s"
Contains(s, lit) == \E i \in 1..Len(s) : StartsAt(s, i, lit)

\* first index >= i whose character is outside cls (Len(s)+1 when none):
\* the end of a greedy run  [cls]*
RECURSIVE SkipIn(_, _, _)
SkipIn(s, i, cls) ==
  IF i <= Len(s) /\ s[i] \in cls THEN SkipIn(s, i + 1, cls) ELSE i

\* first index >= i whose character is inside cls (Len(s)+1 when none)
RECURSIVE SkipNotIn(_, _, _)
SkipNotIn(s, i, cls) ==
  IF i <= Len(s) /\ s[i] \notin cls THEN SkipNotIn(s, i + 1, cls) ELSE i

\* \b at the gap before position i (between s[i-1] and s[i])
WordBoundary(s, i) ==
  LET before == i > 1 /\ i - 1 <= Len(s) /\ s[i - 1] \in WordChars
      after  == i >= 1 /\ i <= Len(s) /\ s[i] \in WordChars
  IN  before # after

\* str.split(): the maximal runs of non-white-space characters, in order
RECURSIVE SplitFrom(_, _)
SplitFrom(s, i) ==
  LET a == SkipIn(s, i, Whitespace)
  IN  IF a > Len(s) THEN <<>>
      ELSE LET b == SkipNotIn(s, a, Whitespace)
           IN  <<SubSeq(s, a, b - 1)>> \o SplitFrom(s, b)

split(s) == SplitFrom(s, 1)

\* str.isdigit()
isdigit(s) == Len(s) > 0 /\ \A k \in 1..Len(s) : s[k] \in Digits

\* " ".join(parts)
RECURSIVE join(_, _)
join(sep, parts) ==
  IF Len(parts) = 0 THEN <<>>
  ELSE IF Len(parts) = 1 THEN parts[1]
  ELSE parts[1] \o sep \o join(sep, Tail(parts))

\* str.strip(): leading and trailing white space removed
RECURSIVE rstrip(_)
rstrip(s) ==
  IF Len(s) > 0 /\ s[Len(s)] \in Whitespace
    THEN rstrip(SubSeq(s, 1, Len(s) - 1))
    ELSE s

strip(s) ==
  LET a == SkipIn(s, 1, Whitespace)
  IN  rstrip(SubSeq(s, a, Len(s)))

\* bytes.decode(errors="replace"): a byte that is no valid UTF-8 becomes the
\* replacement character U+FFFD; the ASCII bytes decode to themselves
InvalidByte == "xFF"
ReplacementChar == "uFFFD"

RECURSIVE decode(_)
decode(bytes) ==
  IF Len(bytes) = 0 THEN <<>>
  ELSE <<IF Head(bytes) = InvalidByte THEN ReplacementChar ELSE Head(bytes)>>
         \o decode(Tail(bytes))

(***************************************************************************)
(* Outcome tags and the status-code table of parse_ffuf_output.            *)
(***************************************************************************)
success == <<"s","u","c","c","e","s","s">>
error   == <<"e","r","r","o","r">>
unknown == <<"u","n","k","n","o","w","n">>

status_codes ==
  << <<<<"2","0","0">>, <<"O","K">>>>,
     <<<<"2","0","1">>, <<"C","r","e","a","t","e","d">>>>,
     <<<<"2","0","4">>, <<"N","o"," ","C","o","n","t","e","n","t">>>>,
     <<<<"3","0","1">>,
       <<"M","o","v","e","d"," ","P","e","r","m","a","n","e","n","t","l","y">>>>,
     <<<<"3","0","2">>, <<"F","o","u","n","d">>>>,
     <<<<"4","0","3">>, <<"F","o","r","b","i","d","d","e","n">>>>,
     <<<<"4","0","4">>, <<"N","o","t"," ","F","o","u","n","d">>>>,
     <<<<"5","0","0">>,
       <<"I","n","t","e","r","n","a","l"," ","S","e","r","v","e","r"," ",
         "E","r","r","o","r">>>>,
     <<<<"5","0","2">>, <<"B","a","d"," ","G","a","t","e","w","a","y">>>>,
     <<<<"5","0","3">>,
       <<"S","e","r","v","i","c","e"," ","U","n","a","v","a","i","l","a","b",
         "l","e">>>> >>

\* status_codes.get(code, default)
status_codes_get(code, default) ==
  IF \E k \in DOMAIN status_codes : status_codes[k][1] = code
    THEN status_codes[CHOOSE k \in DOMAIN status_codes :
                        status_codes[k][1] = code][2]
    ELSE default

LitHTTPSlash == <<"H","T","T","P","/">>
LitHTTP      == <<"H","T","T","P">>
LitFound     == <<"F","o","u","n","d">>
LitError     == <<"E","r","r","o","r">>
LitFailure   == <<"f","a","i","l","u","r","e">>

\* no match of a regular expression (a group of \d+ is never empty)
NoMatch == <<>>

\* HTTP/[\d.]+\s+(\d+) matched at position i: group(1), or NoMatch.  The
\* three character classes are pairwise disjoint, so the greedy runs are the
\* only way to match and backtracking never finds another.
HttpMatchAt(s, i) ==
  IF ~StartsAt(s, i, LitHTTPSlash) THEN NoMatch
  ELSE LET v == SkipIn(s, i + 5, Digits \cup {"."})
           w == SkipIn(s, v, Whitespace)
           d == SkipIn(s, w, Digits)
       IN  IF v > i + 5 /\ w > v /\ d > w THEN SubSeq(s, w, d - 1) ELSE NoMatch

\* re.search(r'HTTP/[\d.]+\s+(\d+)', s).group(1): the leftmost match
RECURSIVE SearchHttpFrom(_, _)
SearchHttpFrom(s, i) ==
  IF i > Len(s) THEN NoMatch
  ELSE LET m == HttpMatchAt(s, i)
       IN  IF m # NoMatch THEN m ELSE SearchHttpFrom(s, i + 1)

\* re.search(r'\bFound\b', s)
SearchFound(s) ==
  \E i \in 1..Len(s) :
    /\ StartsAt(s, i, LitFound)
    /\ WordBoundary(s, i)
    /\ WordBoundary(s, i + Len(LitFound))

\* re.search(r'\bError\b|\bfailure\b', s, re.IGNORECASE)
SearchErrorOrFailure(s) ==
  \E i \in 1..Len(s) :
    \/ /\ StartsAtIgnoreCase(s, i, LitError)
       /\ WordBoundary(s, i)
       /\ WordBoundary(s, i + Len(LitError))
    \/ /\ StartsAtIgnoreCase(s, i, LitFailure)
       /\ WordBoundary(s, i)
       /\ WordBoundary(s, i + Len(LitFailure))

\* parse_ffuf_output with the word tests made before the HTTP status test
parse_ffuf_output_words_first(output) ==
  IF SearchFound(output) THEN success
  ELSE IF SearchErrorOrFailure(output) THEN error
  ELSE LET match == SearchHttpFrom(output, 1)
       IN  IF match # NoMatch THEN status_codes_get(match, unknown)
           ELSE unknown

parse_ffuf_output(output) ==
  LET match == SearchHttpFrom(output, 1)
  IN  IF match # NoMatch THEN status_codes_get(match, unknown)
      ELSE IF SearchFound(output) THEN success
      ELSE IF SearchErrorOrFailure(output) THEN error
      ELSE unknown

(***************************************************************************)
(* process_ffuf_output: the record appended to results, and the returned   *)
(* status.  details is a dict, modelled as its set of (key, value) items.  *)
(***************************************************************************)
\* result_details without the test for the substring "HTTP"
result_details_no_http_test(output_decoded) ==
  LET parts == split(output_decoded)
  IN  IF Len(parts) > 1 /\ isdigit(parts[2])
        THEN { <<"status_code", parts[2]>>,
               <<"status_message",
                 join(<<" ">>, SubSeq(parts, 3, Len(parts)))>> }
        ELSE {}

result_details(output_decoded) ==
  IF Contains(output_decoded, LitHTTP)
    THEN LET parts == split(output_decoded)
         IN  IF Len(parts) > 1 /\ isdigit(parts[2])
               THEN { <<"status_code", parts[2]>>,
                      <<"status_message",
                        join(<<" ">>, SubSeq(parts, 3, Len(parts)))>> }
               ELSE {}
    ELSE {}

\* process_ffuf_output with the record inserted at the front of results
process_ffuf_output_insert_front(output_decoded, res) ==
  LET status == parse_ffuf_output(output_decoded)
      result_entry == [output  |-> output_decoded,
                       status  |-> status,
                       details |-> result_details(output_decoded)]
  IN  [results |-> <<result_entry>> \o res, status |-> status]

process_ffuf_output(output_decoded, res) ==
  LET status == parse_ffuf_output(output_decoded)
      result_entry == [output  |-> output_decoded,
                       status  |-> status,
                       details |-> result_details(output_decoded)]
  IN  [results |-> Append(res, result_entry), status |-> status]

(***************************************************************************)
(* Files.  A file is absent, or exists with a content.  A write either     *)
(* succeeds or raises IOError (io = "IOError") when the file is opened.    *)
(***************************************************************************)
IOOutcomes == {"ok", "IOError"}

AbsentFile == [exists |-> FALSE, content |-> <<>>]

\* log_ffuf_output without its except clause: the IOError reaches the caller
log_ffuf_output_uncaught(output, log_file, timestamp, io) ==
  IF io = "ok"
    THEN [file    |-> [exists  |-> TRUE,
                       content |-> Append(log_file.content,
                                          <<timestamp, output>>)],
          printed |-> {},
          raised  |-> "none"]
    ELSE [file    |-> log_file,
          printed |-> {},
          raised  |-> "IOError"]

\* log_ffuf_output: append "[timestamp] output\n"; IOError is caught and
\* reported, nothing propagates to the caller
log_ffuf_output(output, log_file, timestamp, io) ==
  IF io = "ok"
    THEN [file    |-> [exists  |-> TRUE,
                       content |-> Append(log_file.content,
                                          <<timestamp, output>>)],
          printed |-> {},
          raised  |-> "none"]
    ELSE [file    |-> log_file,
          printed |-> {"Error writing to log file"},
          raised  |-> "none"]

\* save_results_to_file: json.dump of the results list into a file opened
\* for writing; IOError is caught and reported
save_results_to_file(res, file, io) ==
  IF io = "ok"
    THEN [file    |-> [exists |-> TRUE, content |-> res],
          printed |-> {"Results saved"},
          raised  |-> "none"]
    ELSE [file    |-> file,
          printed |-> {"Error saving results to file"},
          raised  |-> "none"]

\* summary_increment that counts only the first record of each status
summary_increment_first_only(summary, status) ==
  IF \E k \in DOMAIN summary : summary[k][1] = status
    THEN summary
    ELSE Append(summary, <<status, 1>>)

\* summary[status] = summary.get(status, 0) + 1 on an insertion-ordered dict,
\* kept as the sequence of its (key, value) items
summary_increment(summary, status) ==
  IF \E k \in DOMAIN summary : summary[k][1] = status
    THEN LET k == CHOOSE j \in DOMAIN summary : summary[j][1] = status
         IN  [summary EXCEPT ![k] = <<status, summary[k][2] + 1>>]
    ELSE Append(summary, <<status, 1>>)

\* the for loop of generate_summary_report from record k on:
\* (summary, detailed_summary)
RECURSIVE summary_loop(_, _, _, _)
summary_loop(res, k, summary, detailed_summary) ==
  IF k > Len(res) THEN <<summary, detailed_summary>>
  ELSE LET status == res[k].status
       IN  summary_loop(res, k + 1,
                        summary_increment(summary, status),
                        IF status = success
                          THEN Append(detailed_summary, res[k].output)
                          ELSE detailed_summary)

\* The text written to the report, one element per line written:
\* <<"header", <<>>, 0>>, then <<"count", Label, n>> per summary item, then,
\* when detailed_summary is not empty, <<"section", <<>>, 0>> and one
\* <<"text", line, 0>> per successful output.
report_text(res) ==
  LET acc      == summary_loop(res, 1, <<>>, <<>>)
      summary  == acc[1]
      detailed == acc[2]
      counts   == [k \in DOMAIN summary |->
                     <<"count", capitalize(summary[k][1]), summary[k][2]>>]
      listing  == [k \in DOMAIN detailed |-> <<"text", detailed[k], 0>>]
  IN  << <<"header", <<>>, 0>> >> \o counts \o
      (IF Len(detailed) > 0
         THEN << <<"section", <<>>, 0>> >> \o listing
         ELSE <<>>)

generate_summary_report(res, file, io) ==
  IF io = "ok"
    THEN [file    |-> [exists |-> TRUE, content |-> report_text(res)],
          printed |-> {"Summary report saved"},
          raised  |-> "none"]
    ELSE [file    |-> file,
          printed |-> {"Error saving summary report"},
          raised  |-> "none"]

(***************************************************************************)
(* State.                                                                  *)
(***************************************************************************)
VARIABLES
  pc,                   \* "loop": in while True; "post": lines 175-181; "done"
  child,                \* "running" | "exited"   (process.poll())
  stdout_open,          \* the child still holds the write end of the pipe
  pipe,                 \* raw lines written by the child and not read yet
  reads,                \* history: the non-empty reads, in order
  now,                  \* time.time() - start_time
  timeout,              \* the timeout parameter of start_fuzzing
  results,              \* the results list
  requests_made, successful_responses, error_count,
  log_file, result_file, report_file,
  log_io,               \* history: outcome of each log_ffuf_output call
  printed,              \* the messages printed so far (as a set)
  failed,               \* exception caught by "except Exception", or "none"
  terminated,           \* process.terminate() was called
  line,                 \* input of a pure-function run
  tag,                  \* result of parse_ffuf_output(line), or NotCalled
  ret                   \* result of process_ffuf_output(line, []), or NotReturned

loop_vars == <<pc, child, stdout_open, pipe, reads, now, timeout, results,
               requests_made, successful_responses, error_count,
               log_file, result_file, report_file, log_io, printed, failed,
               terminated>>

pure_vars == <<line, tag, ret>>

vars == <<loop_vars, pure_vars>>

NotCalled == <<"not called">>

NotReturned == [results |-> <<>>, status |-> NotCalled]

(***************************************************************************)
(* The child process's raw output lines.                                   *)
(***************************************************************************)
RawLines ==
  { <<"H","T","T","P","/","1",".","1"," ","2","0","0"," ","xFF","\n">>,
    <<"F","o","u","n","d","\n">>,
    <<"e","r","r","o","r","\n">>,
    <<"\n">> }

\* the places of one loop iteration where an unexpected exception is
\* injected: readline (line 149), print (line 155), pbar.update (line 167)
Faults == {"none", "readline", "print", "update"}

(***************************************************************************)
(* start_fuzzing, from the creation of the child process on (line 143).    *)
(***************************************************************************)
start_time == 0

LoopInit ==
  /\ pc = "loop"
  /\ child = "running"
  /\ stdout_open = TRUE
  /\ pipe = <<>>
  /\ reads = <<>>
  /\ now = start_time
  /\ timeout \in 0..MaxTimeout
  /\ results = <<>>
  /\ requests_made = 0
  /\ successful_responses = 0
  /\ error_count = 0
  /\ log_file = AbsentFile
  /\ result_file = AbsentFile
  /\ report_file = AbsentFile
  /\ log_io = <<>>
  /\ printed = {}
  /\ failed = "none"
  /\ terminated = FALSE

PureIdle ==
  /\ line = <<>>
  /\ tag = NotCalled
  /\ ret = NotReturned

Init == LoopInit /\ PureIdle

\* the exit test without the test of process.poll()
loop_exit_on_empty_read(output, child_state) == output = <<>>

\* "output == b'' and process.poll() is not None" (line 150)
loop_exit(output, child_state) == output = <<>> /\ child_state = "exited"

\* a timeout test that never fires
timeout_exceeded_never(time_now, limit) == FALSE

\* "time.time() - start_time > timeout" (line 170)
timeout_exceeded(time_now, limit) == time_now - start_time > limit

\* update_counts with requests_made counted only for a success or an error
update_counts_classified_only(status, rm, sr, ec) ==
  [requests_made        |-> IF status \in {success, error} THEN rm + 1 ELSE rm,
   successful_responses |-> IF status = success THEN sr + 1 ELSE sr,
   error_count          |-> IF status = success THEN ec
                            ELSE IF status = error THEN ec + 1
                            ELSE ec]

\* the counters after a line of the given status (lines 161-165)
update_counts(status, rm, sr, ec) ==
  [requests_made        |-> rm + 1,
   successful_responses |-> IF status = success THEN sr + 1 ELSE sr,
   error_count          |-> IF status = success THEN ec
                            ELSE IF status = error THEN ec + 1
                            ELSE ec]

\* the local state of start_fuzzing that an iteration of the loop changes
LoopState ==
  [pc |-> pc, child |-> child, stdout_open |-> stdout_open, pipe |-> pipe,
   reads |-> reads, results |-> results, requests_made |-> requests_made,
   successful_responses |-> successful_responses,
   error_count |-> error_count, log_file |-> log_file, log_io |-> log_io,
   printed |-> printed, failed |-> failed, terminated |-> terminated]

\* the except clause of start_fuzzing (lines 183-184): the exception e is
\* reported and start_fuzzing returns; nothing after the loop runs
ExceptException(st, e) ==
  [st EXCEPT !.pc = "done",
             !.failed = e,
             !.printed = @ \cup {"An unexpected error occurred"}]

\* TimeoutCheck without the break: the child is terminated, the loop goes on
TimeoutCheck_no_break(st) ==
  IF timeout_exceeded(now, timeout)
    THEN [st EXCEPT !.printed = @ \cup {"Timeout exceeded"},
                    !.terminated = TRUE,
                    !.child = "exited",
                    !.stdout_open = FALSE]
    ELSE st

\* the timeout check that ends every iteration that did not break (lines
\* 170-173): process.terminate() and break, or the next iteration
TimeoutCheck(st) ==
  IF timeout_exceeded(now, timeout)
    THEN [st EXCEPT !.printed = @ \cup {"Timeout exceeded"},
                    !.terminated = TRUE,
                    !.child = "exited",
                    !.stdout_open = FALSE,
                    !.pc = "post"]
    ELSE st

\* the element of a one-element set.  Written The({e}), it gives the value
\* of e a name that is evaluated once, however often the name is used.
The(S) == CHOOSE x \in S : TRUE

\* The body of "if output:" (lines 153-167) and the timeout check after it,
\* for the line output, given the results of the calls it makes.
iteration_line(st, output, logged, processed, fault, io) ==
  LET counts       == update_counts(processed.status, st.requests_made,
                                    st.successful_responses, st.error_count)
      after_log    == [st EXCEPT !.pipe = Tail(st.pipe),
                                 !.reads = Append(st.reads, output),
                                 !.log_file = logged.file,
                                 !.log_io = Append(st.log_io, io),
                                 !.printed = @ \cup logged.printed]
      after_counts == [after_log EXCEPT
                         !.results = processed.results,
                         !.requests_made = counts.requests_made,
                         !.successful_responses = counts.successful_responses,
                         !.error_count = counts.error_count]
  IN  IF logged.raised # "none" THEN ExceptException(after_log, logged.raised)
      ELSE IF fault = "print" THEN ExceptException(after_log, "Exception")
      ELSE IF fault = "update" THEN ExceptException(after_counts, "Exception")
      ELSE TimeoutCheck(after_counts)

\* One iteration of "while True" (lines 148-173) from the state st.  fault
\* names where an unexpected exception is raised in this iteration, io the
\* outcome of the log write.
iteration(st, fault, io) ==
  IF fault = "readline"
    THEN ExceptException(st, "Exception")
  ELSE IF st.pipe = <<>>
    THEN \* readline returns b'' at end of file
         IF loop_exit(<<>>, st.child)
           THEN [st EXCEPT !.pc = "post"]
           ELSE TimeoutCheck(st)
  ELSE
    The({ The({ iteration_line(st, Head(st.pipe), logged, processed, fault, io) :
                  logged    \in {log_ffuf_output(output_decoded, st.log_file,
                                                 now, io)},
                  processed \in {process_ffuf_output(output_decoded,
                                                     st.results)} }) :
            output_decoded \in {strip(decode(Head(st.pipe)))} })

\* readline blocks until the pipe holds a line or its write end is closed;
\* then the iteration runs.
start_fuzzing_iteration(fault, io) ==
  /\ pc = "loop"
  /\ pipe # <<>> \/ ~stdout_open
  /\ \E st \in {iteration(LoopState, fault, io)} :
         /\ pc' = st.pc
         /\ child' = st.child
         /\ stdout_open' = st.stdout_open
         /\ pipe' = st.pipe
         /\ reads' = st.reads
         /\ results' = st.results
         /\ requests_made' = st.requests_made
         /\ successful_responses' = st.successful_responses
         /\ error_count' = st.error_count
         /\ log_file' = st.log_file
         /\ log_io' = st.log_io
         /\ printed' = st.printed
         /\ failed' = st.failed
         /\ terminated' = st.terminated
  /\ UNCHANGED <<now, timeout, result_file, report_file>>

\* After the loop (lines 175-181): the counters are printed, the results are
\* saved and the summary report is generated.
start_fuzzing_post(io_result, io_report) ==
  /\ pc = "post"
  /\ LET saved    == save_results_to_file(results, result_file, io_result)
         reported == generate_summary_report(results, report_file, io_report)
     IN  IF saved.raised # "none"
           THEN /\ failed' = saved.raised
                /\ result_file' = saved.file
                /\ report_file' = report_file
                /\ printed' = printed \cup {"Results Summary"} \cup saved.printed
                                \cup {"An unexpected error occurred"}
         ELSE IF reported.raised # "none"
           THEN /\ failed' = reported.raised
                /\ result_file' = saved.file
                /\ report_file' = reported.file
                /\ printed' = printed \cup {"Results Summary"} \cup saved.printed
                                \cup reported.printed
                                \cup {"An unexpected error occurred"}
         ELSE /\ failed' = failed
              /\ result_file' = saved.file
              /\ report_file' = reported.file
              /\ printed' = printed \cup {"Results Summary"} \cup saved.printed
                              \cup reported.printed
  /\ pc' = "done"
  /\ UNCHANGED <<child, stdout_open, pipe, reads, now, timeout, results,
                 requests_made, successful_responses, error_count, log_file,
                 log_io, terminated>>

(***************************************************************************)
(* The environment: the child process and the wall clock.                  *)
(***************************************************************************)
ChildPrint(raw) ==
  /\ pc = "loop"
  /\ child = "running"
  /\ stdout_open
  /\ Len(reads) + Len(pipe) < MaxLines
  /\ pipe' = Append(pipe, raw)
  /\ UNCHANGED <<pc, child, stdout_open, reads, now, timeout, results,
                 requests_made, successful_responses, error_count, log_file,
                 result_file, report_file, log_io, printed, failed,
                 terminated>>

ChildCloseStdout ==
  /\ pc = "loop"
  /\ child = "running"
  /\ stdout_open
  /\ stdout_open' = FALSE
  /\ UNCHANGED <<pc, child, pipe, reads, now, timeout, results,
                 requests_made, successful_responses, error_count, log_file,
                 result_file, report_file, log_io, printed, failed,
                 terminated>>
  /\ UNCHANGED pure_vars

ChildExit ==
  /\ pc = "loop"
  /\ child = "running"
  /\ child' = "exited"
  /\ stdout_open' = FALSE
  /\ UNCHANGED <<pc, pipe, reads, now, timeout, results,
                 requests_made, successful_responses, error_count, log_file,
                 result_file, report_file, log_io, printed, failed,
                 terminated>>
  /\ UNCHANGED pure_vars

Tick ==
  /\ pc = "loop"
  /\ now < MaxClock
  /\ now' = now + 1
  /\ UNCHANGED <<pc, child, stdout_open, pipe, reads, timeout, results,
                 requests_made, successful_responses, error_count, log_file,
                 result_file, report_file, log_io, printed, failed,
                 terminated>>
  /\ UNCHANGED pure_vars

LoopStep ==
  /\ \E fault \in Faults, io \in IOOutcomes :
        start_fuzzing_iteration(fault, io)
  /\ UNCHANGED pure_vars

PostStep ==
  /\ \E io_result \in IOOutcomes, io_report \in IOOutcomes :
        start_fuzzing_post(io_result, io_report)
  /\ UNCHANGED pure_vars

PrintStep ==
  /\ \E raw \in RawLines : ChildPrint(raw)
  /\ UNCHANGED pure_vars

Next ==
  \/ LoopStep
  \/ PostStep
  \/ PrintStep
  \/ ChildCloseStdout
  \/ ChildExit
  \/ Tick

Spec == Init /\ [][Next]_vars

(***************************************************************************)
(* Runs of the two pure functions on one input line.                       *)
(***************************************************************************)
Fragments ==
  { <<"H","T","T","P","/","1",".","1"," ">>,
    <<"H","T","T","P">>,
    <<"2","0","0"," ">>,
    <<"9","9","9"," ">>,
    <<"3","0","2"," ">>,
    <<"F","o","u","n","d">>,
    <<"e","r","r","o","r">>,
    <<"F","A","I","L","U","R","E">>,
    <<"O","K"," ","\t","x">>,
    <<"s">>,
    <<" ">> }

\* the concatenations of at most n fragments
RECURSIVE Concats(_)
Concats(n) ==
  IF n = 0 THEN {<<>>}
  ELSE LET shorter == Concats(n - 1)
       IN  shorter \cup {p \o f : p \in shorter, f \in Fragments}

Lines == Concats(MaxFrags)

PureInit ==
  /\ LoopInit
  /\ timeout = 0
  /\ line \in Lines
  /\ tag = NotCalled
  /\ ret = NotReturned

call_parse_ffuf_output ==
  /\ tag = NotCalled
  /\ tag' = parse_ffuf_output(line)
  /\ UNCHANGED <<line, ret>>
  /\ UNCHANGED loop_vars

call_process_ffuf_output ==
  /\ ret = NotReturned
  /\ ret' = process_ffuf_output(line, <<>>)
  /\ UNCHANGED <<line, tag>>
  /\ UNCHANGED loop_vars

PureNext ==
  \/ call_parse_ffuf_output
  \/ call_process_ffuf_output

PureSpec == PureInit /\ [][PureNext]_vars

\* The loop is a running thread of control: an iteration whose read returns
\* is eventually executed, and so is the code after the loop.  Nothing is
\* assumed of the child or of injected exceptions.
FairSpec ==
  /\ Spec
  /\ WF_vars(\E io \in IOOutcomes :
               start_fuzzing_iteration("none", io) /\ UNCHANGED pure_vars)
  /\ WF_vars(PostStep)

(***************************************************************************)
(* What the claims say of a line, stated on the positions of the line.     *)
(***************************************************************************)
\* all characters of s[a..b] are in cls
AllIn(s, a, b, cls) == \A k \in a..b : s[k] \in cls

\* s[a..b] is a maximal run of digits that ends an occurrence, starting at
\* i, of  HTTP/<version> <digits>
HttpOccurrence(s, i, a, b) ==
  /\ StartsAt(s, i, LitHTTPSlash)
  /\ a <= b /\ b <= Len(s)
  /\ AllIn(s, a, b, Digits)
  /\ (b = Len(s) \/ s[b + 1] \notin Digits)
  /\ \E v \in (i + 5)..(a - 2) :
       /\ AllIn(s, i + 5, v, Digits \cup {"."})
       /\ AllIn(s, v + 1, a - 1, Whitespace)

HttpOccurrenceAt(s, i) ==
  /\ StartsAt(s, i, LitHTTPSlash)
  /\ \E a \in (i + 7)..Len(s) : \E b \in a..Len(s) : HttpOccurrence(s, i, a, b)

HasHttpPattern(s) == \E i \in 1..Len(s) : HttpOccurrenceAt(s, i)

\* the status code of the first occurrence
FirstHttpCode(s) ==
  LET i == CHOOSE j \in 1..Len(s) :
             /\ HttpOccurrenceAt(s, j)
             /\ \A h \in 1..(j - 1) : ~HttpOccurrenceAt(s, h)
      a == CHOOSE x \in (i + 7)..Len(s) :
             \E y \in x..Len(s) : HttpOccurrence(s, i, x, y)
      b == CHOOSE y \in a..Len(s) : HttpOccurrence(s, i, a, y)
  IN  SubSeq(s, a, b)

\* word occurs in s as written, or in any letter case when fold is TRUE
OccursAt(s, a, word, fold) ==
  /\ a + Len(word) - 1 <= Len(s)
  /\ \A k \in 1..Len(word) :
       IF fold THEN ToLower(s[a + k - 1]) = ToLower(word[k])
               ELSE s[a + k - 1] = word[k]

ContainsText(s, word, fold) ==
  \E a \in 1..Len(s) : OccursAt(s, a, word, fold)

\* word occurs in s as a whole word: not preceded and not followed by a letter,
\* a digit or an underscore
ContainsWord(s, word, fold) ==
  \E a \in 1..Len(s) :
    /\ OccursAt(s, a, word, fold)
    /\ (a = 1 \/ s[a - 1] \notin WordChars)
    /\ (a + Len(word) - 1 = Len(s) \/ s[a + Len(word)] \notin WordChars)

\* the label of a status code in the lookup table of section 4.1
TableLabel(code) ==
  CASE code = <<"2","0","0">> -> <<"O","K">>
    [] code = <<"2","0","1">> -> <<"C","r","e","a","t","e","d">>
    [] code = <<"2","0","4">> -> <<"N","o"," ","C","o","n","t","e","n","t">>
    [] code = <<"3","0","1">> ->
         <<"M","o","v","e","d"," ","P","e","r","m","a","n","e","n","t","l","y">>
    [] code = <<"3","0","2">> -> <<"F","o","u","n","d">>
    [] code = <<"4","0","3">> -> <<"F","o","r","b","i","d","d","e","n">>
    [] code = <<"4","0","4">> -> <<"N","o","t"," ","F","o","u","n","d">>
    [] code = <<"5","0","0">> ->
         <<"I","n","t","e","r","n","a","l"," ","S","e","r","v","e","r"," ",
           "E","r","r","o","r">>
    [] code = <<"5","0","2">> -> <<"B","a","d"," ","G","a","t","e","w","a","y">>
    [] code = <<"5","0","3">> ->
         <<"S","e","r","v","i","c","e"," ","U","n","a","v","a","i","l","a","b",
           "l","e">>
    [] OTHER -> <<"u","n","k","n","o","w","n">>

\* The priority order of claim C6; errorAsWord tells whether "error" and
\* "failure" must stand as whole words or may occur anywhere in the line.
ClassOf(s, errorAsWord) ==
  IF HasHttpPattern(s) THEN TableLabel(FirstHttpCode(s))
  ELSE IF ContainsWord(s, LitFound, FALSE) THEN <<"s","u","c","c","e","s","s">>
  ELSE IF (IF errorAsWord
             THEN ContainsWord(s, error, TRUE) \/ ContainsWord(s, LitFailure, TRUE)
             ELSE ContainsText(s, error, TRUE) \/ ContainsText(s, LitFailure, TRUE))
         THEN <<"e","r","r","o","r">>
  ELSE <<"u","n","k","n","o","w","n">>

(***************************************************************************)
(* C6.                                                                     *)
(***************************************************************************)
\* C6 as stated: parse_ffuf_output returns the table label (or "unknown") of
\* a line with an HTTP/<version> <digits> pattern; otherwise "success" for the
\* standalone case-sensitive word "Found"; otherwise "error" when the line
\* CONTAINS "error" or "failure" in any letter case; otherwise "unknown".
C6_Original ==
  tag # NotCalled => tag = ClassOf(line, FALSE)

\* C6 as amended: the same priority order, where "error" is returned only
\* when "error" or "failure" occurs as a whole word (in any letter case): a
\* line such as "errors" is "unknown".
C6_Amended ==
  tag # NotCalled => tag = ClassOf(line, TRUE)

\* C6 witness: a classified line without HTTP pattern and without the word
\* "Found" that holds "error" only inside a longer word: it is "unknown".
C6_Witness ==
  /\ tag # NotCalled
  /\ ~HasHttpPattern(line)
  /\ ~ContainsWord(line, LitFound, FALSE)
  /\ ContainsText(line, error, TRUE)
  /\ ~ContainsWord(line, error, TRUE)
  /\ ~ContainsWord(line, LitFailure, TRUE)
  /\ tag = unknown

(***************************************************************************)
(* C10.                                                                    *)
(***************************************************************************)
\* the positions where a white-space-separated token of s starts
TokenStarts(s) ==
  {a \in 1..Len(s) :
     s[a] \notin Whitespace /\ (a = 1 \/ s[a - 1] \in Whitespace)}

NumTokens(s) == Cardinality(TokenStarts(s))

\* the n-th token of s (1 <= n <= NumTokens(s))
Token(s, n) ==
  LET a == CHOOSE x \in TokenStarts(s) :
             Cardinality({y \in TokenStarts(s) : y < x}) = n - 1
      b == CHOOSE y \in a..Len(s) :
             /\ \A k \in a..y : s[k] \notin Whitespace
             /\ (y = Len(s) \/ s[y + 1] \in Whitespace)
  IN  SubSeq(s, a, b)

\* m is the tokens of s after the second, joined by single spaces
IsRestJoined(m, s) ==
  /\ NumTokens(m) = (IF NumTokens(s) > 2 THEN NumTokens(s) - 2 ELSE 0)
  /\ \A n \in 1..NumTokens(m) : Token(m, n) = Token(s, n + 2)
  /\ \A k \in 1..Len(m) :
       (m[k] \in Whitespace =>
         /\ m[k] = " "
         /\ k > 1 /\ k < Len(m)
         /\ m[k + 1] \notin Whitespace)

\* the condition of C10 for filled details
DetailsFilled(s) ==
  /\ ContainsText(s, LitHTTP, FALSE)
  /\ NumTokens(s) >= 2
  /\ LET t == Token(s, 2) IN \A k \in 1..Len(t) : t[k] \in Digits

\* the value of key in the set of items d (<<>> when absent)
ItemOf(d, key) ==
  IF \E it \in d : it[1] = key
    THEN (CHOOSE it \in d : it[1] = key)[2]
    ELSE <<>>

\* C10: the record process_ffuf_output appends has the line as output and the
\* classifier's tag as status, the tag is also what is returned, and details
\* holds status_code (the second token) and status_message (the tokens after
\* it joined by single spaces) exactly when the line contains "HTTP" and its
\* second white-space-separated token is all digits; otherwise details is
\* empty.
C10_Record ==
  ret # NotReturned =>
    /\ Len(ret.results) = 1
    /\ LET e == ret.results[1]
       IN  /\ e.output = line
           /\ e.status = ClassOf(line, TRUE)
           /\ ret.status = e.status
           /\ tag # NotCalled => ret.status = tag
           /\ IF DetailsFilled(line)
                THEN /\ {it[1] : it \in e.details}
                          = {"status_code", "status_message"}
                     /\ Cardinality(e.details) = 2
                     /\ ItemOf(e.details, "status_code") = Token(line, 2)
                     /\ IsRestJoined(ItemOf(e.details, "status_message"), line)
                ELSE e.details = {}

\* C10 witness: a recorded line whose details are filled with a message of
\* two tokens, which white space other than one space separates in the line.
C10_Witness ==
  /\ ret # NotReturned
  /\ DetailsFilled(line)
  /\ NumTokens(line) = 4
  /\ ~ContainsText(line, ItemOf(ret.results[1].details, "status_message"), FALSE)
  /\ ItemOf(ret.results[1].details, "status_message") = <<"O","K"," ","x">>

\* C10 witness of the other side: a line with an HTTP status pattern whose
\* second token is not a number has empty details.
C10_WitnessEmpty ==
  /\ ret # NotReturned
  /\ HasHttpPattern(line)
  /\ ~DetailsFilled(line)
  /\ ret.results[1].details = {}

(***************************************************************************)
(* C1.                                                                     *)
(***************************************************************************)
\* the text of a raw line read from the pipe
TextOf(raw) == strip(decode(raw))

C1_State ==
  /\ Len(results) <= Len(reads)
  /\ Len(results) >= Len(reads) - 1
  /\ failed = "none" => Len(results) = Len(reads)
  /\ \A k \in 1..Len(results) : results[k].output = TextOf(reads[k])

C1_Step ==
  \/ /\ reads' = reads
     /\ results' = results
  \/ /\ Len(reads') = Len(reads) + 1
     /\ SubSeq(reads', 1, Len(reads)) = reads
     /\ Len(results) = Len(reads)
     /\ \/ /\ Len(results') = Len(results) + 1
           /\ SubSeq(results', 1, Len(results)) = results
        \/ /\ results' = results
           /\ failed' # "none"

CountOf(res, outcome) ==
  Cardinality({k \in 1..Len(res) : res[k].status = outcome})

C5_State ==
  /\ requests_made = Len(results)
  /\ successful_responses = CountOf(results, <<"s","u","c","c","e","s","s">>)
  /\ error_count = CountOf(results, <<"e","r","r","o","r">>)
  /\ successful_responses + error_count <= requests_made

C5_Step ==
  /\ requests_made' \in {requests_made, requests_made + 1}
  /\ successful_responses' \in {successful_responses, successful_responses + 1}
  /\ error_count' \in {error_count, error_count + 1}
  /\ requests_made' = requests_made + 1 <=> Len(results') = Len(results) + 1

\* C5: requests_made is the number of records, successful_responses the
\* number of "success" records, error_count the number of "error" records;
\* a counter never decreases and grows by 1 at a time, requests_made exactly
\* when a record is appended; successes plus errors never exceed the requests.
C5_Counters == [](C5_State) /\ [][C5_Step]_vars

\* C5 witness: a success or an error, and a line that is neither, were counted.
C5_Witness ==
  /\ requests_made = 2
  /\ successful_responses + error_count = 1
  /\ \E k \in 1..Len(results) : results[k].status \notin {success, error}

(***************************************************************************)
(* What the run did after the loop, read from what it printed.             *)
(***************************************************************************)
SaveInvoked ==
  "Results saved" \in printed \/ "Error saving results to file" \in printed

ReportInvoked ==
  "Summary report saved" \in printed \/ "Error saving summary report" \in printed

\* the result file and the report hold the results, when their write succeeded
SinksHoldResults ==
  /\ SaveInvoked
  /\ ReportInvoked
  /\ "Results saved" \in printed =>
       result_file = [exists |-> TRUE, content |-> results]
  /\ "Summary report saved" \in printed =>
       /\ report_file.exists
       /\ report_file.content = report_text(results)

RecordsFollowReads ==
  /\ Len(results) = Len(reads)
  /\ \A k \in 1..Len(results) : results[k].output = TextOf(reads[k])

(***************************************************************************)
(* C2.                                                                     *)
(***************************************************************************)
\* C2: when an unexpected failure inside the streaming loop has ended the
\* run, the records accumulated before it have still been passed to
\* save_results_to_file and to generate_summary_report.
C2_PartialResultsReported ==
  (pc = "done" /\ failed # "none" /\ Len(results) >= 1) =>
    SaveInvoked /\ ReportInvoked

(***************************************************************************)
(* C3.                                                                     *)
(***************************************************************************)
C3_State ==
  terminated =>
    /\ pc \in {"post", "done"}
    /\ child = "exited"
    /\ failed = "none"
    /\ RecordsFollowReads
    /\ pc = "done" => SinksHoldResults

C3_Step ==
  \* a completed iteration that read a line, when the time is over
  /\ (reads' # reads /\ failed' = "none" /\ now - start_time > timeout) =>
       /\ terminated'
       /\ pc' = "post"
       /\ Len(results') = Len(reads')
       /\ results'[Len(results')].output = TextOf(reads'[Len(reads')])
  \* termination is the timeout's, and leaves the loop at once
  /\ (~terminated /\ terminated') =>
       /\ now - start_time > timeout
       /\ pc = "loop" /\ pc' = "post"
  \* after it nothing is read or recorded
  /\ terminated =>
       /\ reads' = reads
       /\ pipe' = pipe
       /\ results' = results
       /\ <<requests_made, successful_responses, error_count>>' =
            <<requests_made, successful_responses, error_count>>

\* C3: an iteration whose timeout check finds the elapsed time greater than
\* timeout terminates the child and leaves the loop in that iteration; no read
\* follows, the records appended before the check (the line of that iteration
\* included) stay in results, and the code after the loop writes them to the
\* result file and summarises them in the report as after a normal exit.
C3_Timeout == [](C3_State) /\ [][C3_Step]_vars

\* C3 witness: a run ended by the timeout in the iteration that read its
\* second line, with both files written from the two records.
C3_Witness ==
  /\ terminated
  /\ pc = "done"
  /\ Len(results) = 2
  /\ result_file = [exists |-> TRUE, content |-> results]
  /\ report_file.exists

(***************************************************************************)
(* C4.                                                                     *)
(***************************************************************************)
\* the read in progress returns: a line is in the pipe, or its end is closed
ReadReturns == pipe # <<>> \/ ~stdout_open

TimeIsOver == pc = "loop" /\ now - start_time > timeout

\* C4 as stated: once the elapsed time exceeds the timeout the aggregator
\* leaves the loop, whatever the child does (printing nothing included).
C4_Original == TimeIsOver ~> (pc # "loop")

C4_Step ==
  /\ (LoopStep /\ TimeIsOver) =>
       /\ pc' \in {"post", "done"}
       /\ (pc' = "post" /\ ~(pipe = <<>> /\ child = "exited")) => terminated'
  \* a read that returns keeps doing so until the iteration runs
  /\ (TimeIsOver /\ ReadReturns) => (pc' # "loop" \/ (TimeIsOver /\ ReadReturns)')

C4_State ==
  \* the iteration that runs when the read returns leaves the loop
  /\ (TimeIsOver /\ ReadReturns) =>
       \A io \in IOOutcomes : iteration(LoopState, "none", io).pc = "post"
  \* the final counters count the lines read, and no more
  /\ (pc = "done" /\ failed = "none") =>
       /\ requests_made = Len(reads)
       /\ RecordsFollowReads

\* C4 as amended: once the elapsed time exceeds the timeout, the first
\* iteration that runs is the last one (it terminates the child and leaves
\* the loop), and the final counters count only the lines read up to then;
\* that iteration runs when the read in progress returns, that is when the
\* child has printed a line or its output is closed (with the loop weakly
\* fair, as in FairSpec, the three conjuncts about TimeIsOver /\ ReadReturns
\* are the premises of the rule WF1 for
\* (TimeIsOver /\ ReadReturns) ~> (pc # "loop")).  A child that prints nothing
\* and keeps its output open blocks the read, and the loop, for ever.
C4_Amended == [][C4_Step]_vars /\ [](C4_State)

\* C4 witness: the time ran out while a read was blocked on a silent child;
\* the line that came later was read, counted, and the run terminated.
C4_Witness ==
  /\ terminated
  /\ pc = "post"
  /\ requests_made = 1
  /\ log_file.content # <<>>
  /\ log_file.content[1][1] - start_time > timeout + 1

(***************************************************************************)
(* C9.                                                                     *)
(***************************************************************************)
C9_Step ==
  /\ (pc = "loop" /\ pc' = "post" /\ ~terminated') =>
       /\ pipe = <<>>
       /\ child = "exited"
       /\ reads' = reads
  \* an exited child with its output read stays so until the loop ends
  /\ (pc = "loop" /\ child = "exited" /\ pipe = <<>>) =>
       (pc' # "loop" \/ (pc = "loop" /\ child = "exited" /\ pipe = <<>>)')

C9_State ==
  /\ (pc \in {"post", "done"} /\ ~terminated /\ failed = "none") =>
       /\ pipe = <<>>
       /\ child = "exited"
       /\ RecordsFollowReads
  \* the iteration after the child's exit is not blocked and ends the loop
  /\ (pc = "loop" /\ child = "exited" /\ pipe = <<>>) =>
       /\ ReadReturns
       /\ \A io \in IOOutcomes : iteration(LoopState, "none", io).pc = "post"
  \* an empty read with the child running does not end the loop by itself
  /\ (pc = "loop" /\ child = "running" /\ pipe = <<>> /\ ~stdout_open
        /\ ~(now - start_time > timeout)) =>
       \A io \in IOOutcomes : iteration(LoopState, "none", io).pc = "loop"

\* C9: without timeout and failure the loop ends only in an iteration whose
\* read is empty while the child has exited (an empty read with the child
\* running and a non-empty read do not end it); the results then hold every
\* line the child wrote; and when the child has exited and its output is read
\* to the end, the next iteration is not blocked and ends the loop (with the
\* loop weakly fair, as in FairSpec, these are the premises of the rule WF1
\* for  (pc = "loop" /\ child = "exited" /\ pipe = <<>>) ~> (pc # "loop")).
C9_NormalExit == [][C9_Step]_vars /\ [](C9_State)

\* C9 witness: the loop ended normally after the child wrote two lines.
C9_Witness ==
  /\ pc = "post"
  /\ ~terminated
  /\ failed = "none"
  /\ Len(results) = 2

(***************************************************************************)
(* C7.                                                                     *)
(***************************************************************************)
\* the same text but for the case of its letters
SameButCase(s, t) ==
  /\ Len(s) = Len(t)
  /\ \A k \in 1..Len(s) : ToLower(s[k]) = ToLower(t[k])

Outcomes(res) == {res[k].status : k \in 1..Len(res)}

LinesTagged(report, kind) == {k \in 1..Len(report) : report[k][1] = kind}

RECURSIVE SumOfCounts(_, _)
SumOfCounts(report, k) ==
  IF k > Len(report) THEN 0
  ELSE (IF report[k][1] = "count" THEN report[k][3] ELSE 0)
         + SumOfCounts(report, k + 1)

IsSuccess(r) == r.status = <<"s","u","c","c","e","s","s">>

IsText(l) == l[1] = "text"

\* report is a summary of res as C7 describes it
Summarises(report, res) ==
  /\ Len(report) >= 1
  /\ LinesTagged(report, "header") = {1}
  \* exactly one count line per distinct outcome, and no other count line
  /\ \A o \in Outcomes(res) :
       \E k \in LinesTagged(report, "count") :
         /\ SameButCase(report[k][2], o)
         /\ report[k][3] = CountOf(res, o)
  /\ Cardinality(LinesTagged(report, "count")) = Cardinality(Outcomes(res))
  /\ SumOfCounts(report, 1) = Len(res)
  \* the section of the successful requests
  /\ (LinesTagged(report, "section") # {}) <=> (\E k \in 1..Len(res) : IsSuccess(res[k]))
  /\ Cardinality(LinesTagged(report, "section")) <= 1
  /\ LET texts  == SelectSeq(report, IsText)
         wanted == SelectSeq(res, IsSuccess)
     IN  /\ Len(texts) = Len(wanted)
         /\ \A k \in 1..Len(texts) : texts[k][2] = wanted[k].output
  \* header, counts, section, texts, in this order
  /\ \A c \in LinesTagged(report, "count") :
       \A x \in LinesTagged(report, "section") \cup LinesTagged(report, "text") :
         c < x
  /\ \A x \in LinesTagged(report, "section") :
       \A t \in LinesTagged(report, "text") : x < t

C7_WitnessRepeated ==
  /\ "Summary report saved" \in printed
  /\ Len(results) = 2
  /\ results[1].status = results[2].status
  /\ Len(report_file.content) = 2

(***************************************************************************)
(* C8.                                                                     *)
(***************************************************************************)
C8_State ==
  \* no I/O failure reaches the handler of unexpected failures
  /\ failed # "IOError"
  /\ Len(log_io) = Len(reads)
  \* a failed log write is reported, and its line is recorded and counted
  /\ (\E k \in 1..Len(log_io) : log_io[k] = "IOError") =>
       "Error writing to log file" \in printed
  /\ failed = "none" =>
       /\ RecordsFollowReads
       /\ requests_made = Len(reads)
       /\ \A k \in 1..Len(results) :
            results[k].status = ClassOf(results[k].output, TRUE)
  \* the log holds the lines whose write succeeded
  /\ Len(log_file.content)
       = Cardinality({k \in 1..Len(log_io) : log_io[k] = "ok"})
  \* a run that reached the end of the loop attempts both writes, and the one
  \* does not depend on the other
  /\ (pc = "done" /\ ~("An unexpected error occurred" \in printed)) =>
       /\ SaveInvoked
       /\ ReportInvoked
       /\ "Results saved" \in printed =>
            result_file = [exists |-> TRUE, content |-> results]
       /\ "Error saving results to file" \in printed => ~result_file.exists
       /\ "Summary report saved" \in printed =>
            /\ report_file.exists
            /\ Summarises(report_file.content, results)
       /\ "Error saving summary report" \in printed => ~report_file.exists

C8_Step ==
  \* the iteration whose log write failed goes on to the next read, unless
  \* the time is over
  /\ (Len(log_io') > Len(log_io) /\ log_io'[Len(log_io')] = "IOError"
        /\ failed' = "none") =>
       /\ Len(results') = Len(results) + 1
       /\ log_file' = log_file
       /\ pc' = "loop" \/ terminated'
  \* writing the result file and the report changes no collected data
  /\ PostStep =>
       /\ results' = results
       /\ requests_made' = requests_made
       /\ successful_responses' = successful_responses
       /\ error_count' = error_count
       /\ failed' = failed

\* C8: an I/O failure while writing a log entry, the result file or the
\* report is reported and neither aborts the run nor changes the collected
\* data: the line of a failed log write is still classified, recorded and
\* counted, later lines are still read, and after a failed write of the
\* result file the report is still generated from the unchanged results.
C8_IOFailures == [](C8_State) /\ [][C8_Step]_vars

\* C8 witness: the log write of the first line failed and a second line was
\* read afterwards; the result file could not be written and the report was.
C8_Witness ==
  /\ pc = "done"
  /\ failed = "none"
  /\ Len(log_io) = 2
  /\ log_io[1] = "IOError"
  /\ Len(results) = 2
  /\ "Error saving results to file" \in printed
  /\ "Summary report saved" \in printed

=============================================================================
